---- MODULE Spec2Model ----
(***************************************************************************)
(* guardian-cli: governance (propose / vote / tally / finalize / withdraw) *)
(* over the flat-file store under .agreements/, and the rule engine's      *)
(* exception filter.                                                       *)
(*                                                                         *)
(* Strings whose characters matter (e-mail addresses, paths, globs) are    *)
(* sequences of one-character strings.  The clock counts half days.        *)
(***************************************************************************)
EXTENDS Integers, Sequences, FiniteSets, TLC

VARIABLES
    constitution,   \* .agreements/constitution.yml as loaded by LoadConstitution
    proposals,      \* .agreements/proposals/: proposal id -> Proposal
    votes,          \* .agreements/votes/: <<proposal id, file name>> -> Vote
    now,            \* time.Now(), in clock ticks
    lastOp,         \* the last command: what ran, for whom, on what, exit code
    writes,         \* how many commands have written to the store so far
    rejected,       \* history: the proposals whose tally has been REJECTED
    qIn,            \* arguments of a CalculateQuorum call
    qOut,           \* the QuorumResult it returned ({} before the call)
    rOut,           \* the slice GetEligibleVoters returned ({} before the call)
    tProposal,      \* the proposal handed to ComputeTally
    tVotes,         \* the vote slice handed to ComputeTally
    tally,          \* the TallyResult it returned ({} before the first call)
    eExceptions,    \* Engine.Exceptions
    eViolations,    \* the violations the checkers produced
    eActive,        \* applyExceptions' activeExceptions ({} before the call)
    eFiltered,      \* what applyExceptions returned ({} before the call)
    dA,             \* a unified diff
    dB,             \* a second diff, starting with a "diff --git" line
    dOut,           \* ParseDiff of dA, of dB and of dA followed by dB ({} before)
    gIn,            \* arguments of a globMatch call
    gOut,           \* what it returned ({} before the call)
    rRules,         \* Engine.Rules
    rFiles,         \* changedFiles
    rDiff,          \* diffContent
    rChecks,        \* what a RuleChecker's Check returned ({} before the call)
    rResult,        \* what Engine.Run returned ({} while it runs)
    mDir,           \* .agreements/proposals/ as MetaChecker reads it: state and entries
    mOut,           \* what MetaChecker.Check returned ({} before the call)
    hRepo,          \* whether the working directory holds a .git directory
    hHooks,         \* .git/hooks: per hook name, {} or the file's content
    hLast           \* the last hooks operation and its error

vars == <<constitution, proposals, votes, now, lastOp, writes, rejected, qIn, qOut, rOut,
          tProposal, tVotes, tally, eExceptions, eViolations, eActive, eFiltered,
          dA, dB, dOut, gIn, gOut, rRules, rFiles, rDiff, rChecks, rResult, mDir, mOut,
          hRepo, hHooks, hLast>>

govVars    == <<proposals, votes, lastOp, writes, rejected>>
quorumVars == <<qIn, qOut>>
tallyVars  == <<tProposal, tVotes, tally>>
engineVars == <<eExceptions, eViolations, eActive, eFiltered>>
parseVars  == <<dA, dB, dOut>>
globVars   == <<gIn, gOut>>
runVars    == <<rRules, rFiles, rDiff, rChecks, rResult>>
metaVars   == <<mDir, mOut>>
hookVars   == <<hRepo, hHooks, hLast>>
checkerVars == <<parseVars, globVars, runVars, metaVars, hookVars>>

(***************************************************************************)
(* Bounds                                                                  *)
(***************************************************************************)
MaxTime     == 3    \* the clock stops here
MaxWrites   == 4    \* commands that write to the store, per run
MaxEligible == 4    \* largest totalEligible / vote count fed to CalculateQuorum
MaxVotes    == 3    \* longest vote slice fed to ComputeTally
MaxTtlDays  == 1    \* largest proposal_ttl_days
MaxVoterRefs == 3   \* longest governance.voters list
MaxMembers  == 2    \* longest member list of a role
MaxExceptions == 2  \* most exception files
MaxViolations == 3  \* most violations of one run

TicksPerDay == 2    \* a day (24 * time.Hour) in clock ticks

None == "none"   \* a file or input that is not there
Nobody == << >>  \* no user, no target

(***************************************************************************)
(* Strings                                                                 *)
(***************************************************************************)
RECURSIVE ReplaceAll(_, _, _)
ReplaceAll(s, old, new) ==
    IF s = << >> THEN << >>
    ELSE (IF Head(s) = old THEN new ELSE <<Head(s)>>) \o ReplaceAll(Tail(s), old, new)

Range(s) == { s[i] : i \in 1..Len(s) }

(* users, as git config user.email reports them *)
Alice == <<"a", "@", "x">>
Bob   == <<"b", ".", "c", "@", "x">>
Bobby == <<"b", "_", "c", "@", "x">>
Users == {Alice, Bob, Bobby}

RuleIDs == {"r1", "r2"}    \* rule ids of rules.yml
GovRuleIDs == {"r1"}       \* the rule the users make proposals for

(***************************************************************************)
(* CalculateQuorum                                                         *)
(***************************************************************************)
Ceil(a, b) == (a + b - 1) \div b

Majority  == [Type |-> "majority",   Num |-> 0, Den |-> 1]
TwoThirds == [Type |-> "two_thirds", Num |-> 0, Den |-> 1]
Unanimous == [Type |-> "unanimous",  Num |-> 0, Den |-> 1]
Custom(n, d) == [Type |-> "custom",  Num |-> n, Den |-> d]
Untyped   == [Type |-> "",           Num |-> 0, Den |-> 1]

QuorumConfigs == {Majority, TwoThirds, Unanimous, Custom(1, 2), Custom(3, 4), Untyped}

(* float64: a positive value is its significant bits, most significant    *)
(* first and without trailing zeros, at most MantissaBits of them, and the *)
(* binary exponent of the first bit; zero has no bits                      *)
MantissaBits == 53

FloatZero == [bits |-> << >>, exp |-> 0]

RECURSIVE IntBits(_)
IntBits(n) == IF n = 0 THEN << >> ELSE IntBits(n \div 2) \o <<n % 2>>

RECURSIVE BitsValue(_)
BitsValue(bits) ==
    IF bits = << >> THEN 0 ELSE 2 * BitsValue(SubSeq(bits, 1, Len(bits) - 1)) + bits[Len(bits)]

RECURSIVE StripZeros(_)
StripZeros(bits) ==
    IF bits # << >> /\ bits[Len(bits)] = 0 THEN StripZeros(SubSeq(bits, 1, Len(bits) - 1))
    ELSE bits

(* bits + 1; a carry out of the first bit lengthens the sequence by one *)
RECURSIVE Increment(_)
Increment(bits) ==
    IF bits = << >> THEN <<1>>
    ELSE IF bits[Len(bits)] = 0 THEN SubSeq(bits, 1, Len(bits) - 1) \o <<1>>
    ELSE Increment(SubSeq(bits, 1, Len(bits) - 1)) \o <<0>>

(* round to nearest, ties to even: whether the kept bits are incremented *)
RoundsUp(mantissa, guard, sticky) ==
    guard = 1 /\ (sticky \/ mantissa[Len(mantissa)] = 1)

(* the float64 nearest to the value whose bits start with `bits` (first    *)
(* bit 1, exponent exp); sticky tells that bits beyond them are not all 0  *)
RoundBits(bits, exp, sticky) ==
    IF Len(bits) <= MantissaBits THEN [bits |-> StripZeros(bits), exp |-> exp]
    ELSE LET mantissa == SubSeq(bits, 1, MantissaBits)
             guard    == bits[MantissaBits + 1]
             rest     == \E i \in (MantissaBits + 2)..Len(bits) : bits[i] = 1
         IN  IF RoundsUp(mantissa, guard, sticky \/ rest)
             THEN LET up == Increment(mantissa)
                  IN  [bits |-> StripZeros(up), exp |-> exp + (Len(up) - MantissaBits)]
             ELSE [bits |-> StripZeros(mantissa), exp |-> exp]

(* the first count bits of r/den after the binary point, for r < den;     *)
(* shorter when the expansion ends                                         *)
RECURSIVE FracBits(_, _, _)
FracBits(r, den, count) ==
    IF count = 0 \/ r = 0 THEN << >>
    ELSE <<(2 * r) \div den>> \o FracBits((2 * r) % den, den, count - 1)

RECURSIVE FracRest(_, _, _)
FracRest(r, den, count) ==
    IF count = 0 \/ r = 0 THEN r ELSE FracRest((2 * r) % den, den, count - 1)

RECURSIVE LeadingZeros(_, _)
LeadingZeros(r, den) == IF 2 * r >= den THEN 0 ELSE 1 + LeadingZeros(2 * r, den)

(* the float64 nearest to num/den: strconv.ParseFloat of a decimal, and    *)
(* the quotient of two floats that hold the integers num and den           *)
NearestFloat(num, den) ==
    IF num = 0 THEN FloatZero
    ELSE LET whole == IntBits(num \div den)
             r     == num % den
         IN  IF whole # << >>
             THEN LET count == MantissaBits + 1 - Len(whole)
                  IN  RoundBits(whole \o FracBits(r, den, count), Len(whole) - 1,
                                FracRest(r, den, count) # 0)
             ELSE LET zeros == LeadingZeros(r, den)
                      count == zeros + MantissaBits + 1
                      all   == FracBits(r, den, count)
                  IN  RoundBits(SubSeq(all, zeros + 1, Len(all)), -(zeros + 1),
                                FracRest(r, den, count) # 0)

(* bits times n, least significant bit first *)
RECURSIVE TimesRev(_, _, _)
TimesRev(rev, n, carry) ==
    IF rev = << >> THEN (IF carry = 0 THEN << >>
                         ELSE <<carry % 2>> \o TimesRev(rev, n, carry \div 2))
    ELSE LET sum == Head(rev) * n + carry
         IN  <<sum % 2>> \o TimesRev(Tail(rev), n, sum \div 2)

Reverse(s) == [i \in 1..Len(s) |-> s[Len(s) + 1 - i]]

(* float64(n) * f *)
FloatTimesInt(f, n) ==
    IF n = 0 \/ f.bits = << >> THEN FloatZero
    ELSE LET product == Reverse(TimesRev(Reverse(f.bits), n, 0))
         IN  RoundBits(product, f.exp + (Len(product) - Len(f.bits)), FALSE)

(* int(math.Ceil(f)) *)
FloatCeil(f) ==
    IF f.bits = << >> THEN 0
    ELSE IF f.exp < 0 THEN 1
    ELSE LET wholeLen == f.exp + 1
         IN  IF Len(f.bits) <= wholeLen
             THEN BitsValue(f.bits \o [i \in 1..(wholeLen - Len(f.bits)) |-> 0])
             ELSE BitsValue(SubSeq(f.bits, 1, wholeLen)) + 1

calculateRequired(qc, totalEligible) ==
    CASE qc.Type = "majority"   -> totalEligible \div 2 + 1
      [] qc.Type = "two_thirds" -> FloatCeil(NearestFloat(totalEligible * 2, 3))
      [] qc.Type = "unanimous"  -> totalEligible
      [] qc.Type = "custom"     -> FloatCeil(FloatTimesInt(NearestFloat(qc.Num, qc.Den),
                                                           totalEligible))
      [] OTHER                  -> totalEligible \div 2 + 1

QuorumVerdictSkipsReject(required, totalEligible, yesVotes, noVotes) ==
    IF yesVotes >= required THEN "ACCEPTED" ELSE "PENDING"

QuorumVerdict(required, totalEligible, yesVotes, noVotes) ==
    IF yesVotes >= required THEN "ACCEPTED"
    ELSE IF noVotes > totalEligible - required THEN "REJECTED"
    ELSE "PENDING"

CalculateQuorum(qc, totalEligible, yesVotes, noVotes) ==
    LET required == calculateRequired(qc, totalEligible)
    IN  [Required      |-> required,
         YesVotes      |-> yesVotes,
         NoVotes       |-> noVotes,
         TotalEligible |-> totalEligible,
         Result        |-> QuorumVerdict(required, totalEligible, yesVotes, noVotes)]

(***************************************************************************)
(* GetEligibleVoters, IsVoter                                              *)
(***************************************************************************)
AppendMembers(voters, members) == voters \o members

RECURSIVE AppendUnseen(_, _)
AppendUnseen(voters, members) ==
    IF members = << >> THEN voters
    ELSE AppendUnseen(IF Head(members) \in Range(voters) THEN voters
                      ELSE Append(voters, Head(members)),
                      Tail(members))

RECURSIVE ScanVoterRoles(_, _, _)
ScanVoterRoles(voterRefs, roles, voters) ==
    IF voterRefs = << >> THEN voters
    ELSE ScanVoterRoles(Tail(voterRefs), roles,
                        IF Head(voterRefs) \in DOMAIN roles
                        THEN AppendUnseen(voters, roles[Head(voterRefs)])
                        ELSE voters)

GetEligibleVoters(c) == ScanVoterRoles(c.Voters, c.Roles, << >>)

IsVoter(c, email) ==
    \E i \in 1..Len(c.Voters) :
        /\ c.Voters[i] \in DOMAIN c.Roles
        /\ email \in Range(c.Roles[c.Voters[i]])

(***************************************************************************)
(* constitution.yml                                                        *)
(***************************************************************************)
Roster(voterRefs, roles) == [Voters |-> voterRefs, Roles |-> roles]

LeadOnly   == Roster(<<"lead">>,
                     [r \in {"lead", "arch"} |-> IF r = "lead" THEN <<Alice>> ELSE <<Bob, Bobby>>])
LeadArch   == Roster(<<"lead", "arch">>,
                     [r \in {"lead", "arch"} |-> IF r = "lead" THEN <<Alice, Bob>> ELSE <<Bob, Bobby>>])
GhostArch  == Roster(<<"ghost", "arch">>,
                     [r \in {"arch"} |-> <<Bob, Bobby>>])
Overlap    == Roster(<<"lead", "arch">>,
                     [r \in {"lead", "arch"} |-> IF r = "lead" THEN <<Alice, Bob>> ELSE <<Bob>>])
Rosters    == {LeadOnly, LeadArch, GhostArch, Overlap}

(* the only voter role is not defined: nobody is eligible *)
GhostOnly  == Roster(<<"ghost">>, [r \in {"arch"} |-> <<Bob>>])

NoOverrides == [r \in {} |-> [Quorum |-> Majority]]
OverrideR1  == [r \in {"r1"} |-> [Quorum |-> Unanimous]]
OverrideR2  == [r \in {"r2"} |-> [Quorum |-> Unanimous]]

Constitution(roster, qc, forbid, change, ttl, over) ==
    [Voters             |-> roster.Voters,
     Roles              |-> roster.Roles,
     Quorum             |-> qc,
     ForbidSelfApproval |-> forbid,
     AllowVoteChange    |-> change,
     ProposalTTLDays    |-> ttl,
     PerRuleOverrides   |-> over]

(* the constitutions the governance commands are run under *)
GovConstitutions ==
    { Constitution(LeadArch,  Majority,     TRUE,  FALSE, MaxTtlDays, NoOverrides),
      Constitution(LeadArch,  Majority,     FALSE, TRUE,  0,          OverrideR1),
      Constitution(GhostArch, Majority,     TRUE,  TRUE,  0,          NoOverrides),
      Constitution(GhostArch, Custom(1, 2), FALSE, FALSE, MaxTtlDays, NoOverrides),
      Constitution(LeadOnly,  Majority,     FALSE, TRUE,  MaxTtlDays, NoOverrides),
      Constitution(LeadOnly,  Unanimous,    TRUE,  FALSE, 0,          NoOverrides),
      Constitution(GhostOnly, Unanimous,    FALSE, FALSE, 0,          NoOverrides) }

(***************************************************************************)
(* ComputeTally                                                            *)
(***************************************************************************)
CountAllVotes(vs, eligibleSet, decision) ==
    Cardinality({ i \in 1..Len(vs) : vs[i].Decision = decision })

RECURSIVE CountVotes(_, _, _)
CountVotes(vs, eligibleSet, decision) ==
    IF vs = << >> THEN 0
    ELSE (IF Head(vs).VoterEmail \in eligibleSet /\ Head(vs).Decision = decision
          THEN 1 ELSE 0)
         + CountVotes(Tail(vs), eligibleSet, decision)

TtlExpired(ttlDays, createdAt, t) ==
    ttlDays > 0 /\ t > createdAt + ttlDays * TicksPerDay

ExpiredUnlessAccepted(result, isExpired) ==
    IF isExpired /\ result # "ACCEPTED" THEN "EXPIRED" ELSE result

ExpiryOverride(result, isExpired) ==
    IF isExpired THEN "EXPIRED" ELSE result

DefaultQuorumOnly(c, ruleID) == c.Quorum

(* the per-rule override when PerRuleOverrides has the rule, else the default *)
EffectiveQuorum(c, ruleID) ==
    IF ruleID \in DOMAIN c.PerRuleOverrides
    THEN c.PerRuleOverrides[ruleID].Quorum
    ELSE c.Quorum

ComputeTally(proposal, vs, c, t) ==
    LET eligibleVoters == GetEligibleVoters(c)
        eligibleSet    == Range(eligibleVoters)
        qc             == EffectiveQuorum(c, proposal.RuleID)
        yesVotes       == CountVotes(vs, eligibleSet, "yes")
        noVotes        == CountVotes(vs, eligibleSet, "no")
        isExpired      == TtlExpired(c.ProposalTTLDays, proposal.CreatedAt, t)
        quorumResult   == CalculateQuorum(qc, Len(eligibleVoters), yesVotes, noVotes)
    IN  [ProposalID     |-> proposal.ID,
         RuleID         |-> proposal.RuleID,
         EligibleVoters |-> eligibleVoters,
         Votes          |-> vs,
         QuorumResult   |-> [quorumResult EXCEPT
                                !.Result = ExpiryOverride(quorumResult.Result, isExpired)],
         QuorumConfig   |-> qc,
         IsExpired      |-> isExpired]

(***************************************************************************)
(* The flat-file store                                                     *)
(***************************************************************************)
Date(t) == t \div TicksPerDay

ProposalID(t, ruleID) == <<Date(t), ruleID>>

AllProposalIDs == { <<d, r>> : d \in 0..Date(MaxTime), r \in GovRuleIDs }

SanitizeEmail(email) == ReplaceAll(ReplaceAll(email, "@", <<"_", "a", "t", "_">>), ".", <<"_">>)

VoteFile(email) == SanitizeEmail(email)

(* a total order on the file names of one directory, as os.ReadDir lists them *)
CharCode(ch) ==
    CASE ch = "." -> 46 [] ch = "@" -> 64 [] ch = "_" -> 95
      [] ch = "a" -> 97 [] ch = "b" -> 98 [] ch = "c" -> 99
      [] ch = "t" -> 116 [] ch = "x" -> 120 [] OTHER -> 0

RECURSIVE NameBefore(_, _)
NameBefore(a, b) ==
    IF a = << >> THEN b # << >>
    ELSE IF b = << >> THEN FALSE
    ELSE IF Head(a) = Head(b) THEN NameBefore(Tail(a), Tail(b))
    ELSE CharCode(Head(a)) < CharCode(Head(b))

RECURSIVE ReadDir(_)
ReadDir(names) ==
    IF names = {} THEN << >>
    ELSE LET first == CHOOSE n \in names : \A m \in names \ {n} : NameBefore(n, m)
         IN  <<first>> \o ReadDir(names \ {first})

LoadVotesForProposal(store, proposalID) ==
    LET names == { path[2] : path \in { q \in DOMAIN store : q[1] = proposalID } }
        dir   == ReadDir(names)
    IN  [i \in 1..Len(dir) |-> store[<<proposalID, dir[i]>>]]

(* guardian tally <proposal_id>, on a given store at a given time *)
TallyIn(ps, vs, t, proposalID) ==
    ComputeTally(ps[proposalID], LoadVotesForProposal(vs, proposalID), constitution, t)

TallyOf(proposalID) == TallyIn(proposals, votes, now, proposalID)

ResultOf(proposalID) == TallyOf(proposalID).QuorumResult.Result

Op(cmd, user, target, exit) == [cmd |-> cmd, user |-> user, target |-> target, exit |-> exit]

(***************************************************************************)
(* guardian propose <rule_id>                                              *)
(***************************************************************************)
NeverActive(ruleID) == FALSE

HasActiveProposal(ruleID) ==
    \E id \in DOMAIN proposals :
        proposals[id].RuleID = ruleID /\ proposals[id].Status = "proposed"

ProposalTypes == {"modify", "rewrite"}

ValidateProposal(p) == p.ProposalType \in {"modify", "add", "remove"}

Propose(user, ruleID, ptype) ==
    LET id == ProposalID(now, ruleID)
        p  == [ID |-> id, RuleID |-> ruleID, ProposalType |-> ptype,
               CreatedBy |-> user, CreatedAt |-> now, Status |-> "proposed"]
    IN  /\ IF HasActiveProposal(ruleID)
           THEN /\ lastOp' = Op("propose", Nobody, Nobody, 1)
                /\ UNCHANGED proposals
           ELSE IF ~ValidateProposal(p)
           THEN /\ lastOp' = Op("propose", Nobody, Nobody, 2)
                /\ UNCHANGED proposals
           ELSE /\ writes < MaxWrites
                /\ proposals' = (id :> p) @@ proposals
                /\ lastOp' = Op("propose", user, id, 0)
        /\ writes' = IF lastOp'.exit = 0 THEN writes + 1 ELSE writes
        /\ UNCHANGED <<constitution, votes, now>>

(***************************************************************************)
(* guardian vote <proposal_id> --yes|--no                                  *)
(***************************************************************************)
SelfApprovalAllowed(c, p, email, decision) == FALSE

SelfApproval(c, p, email, decision) ==
    c.ForbidSelfApproval /\ p.CreatedBy = email /\ decision = "yes"

NeverVoted(existingVotes, email) == FALSE

AlreadyVoted(existingVotes, email) ==
    \E i \in 1..Len(existingVotes) : existingVotes[i].VoterEmail = email

Vote(user, id, decision) ==
    LET existingVotes == LoadVotesForProposal(votes, id)
        vote == [ProposalID |-> id, VoterEmail |-> user, Decision |-> decision]
    IN  /\ IF id \notin DOMAIN proposals
           THEN /\ lastOp' = Op("vote", Nobody, Nobody, 2)
                /\ UNCHANGED votes
           ELSE IF \/ proposals[id].Status # "proposed"
                   \/ ~IsVoter(constitution, user)
                   \/ SelfApproval(constitution, proposals[id], user, decision)
                   \/ (AlreadyVoted(existingVotes, user) /\ ~constitution.AllowVoteChange)
           THEN /\ lastOp' = Op("vote", Nobody, Nobody, 1)
                /\ UNCHANGED votes
           ELSE /\ writes < MaxWrites
                /\ votes' = (<<id, VoteFile(user)>> :> vote) @@ votes
                /\ lastOp' = Op("vote", user, id, 0)
        /\ writes' = IF lastOp'.exit = 0 THEN writes + 1 ELSE writes
        /\ UNCHANGED <<constitution, proposals, now>>

(***************************************************************************)
(* guardian finalize <proposal_id>                                         *)
(***************************************************************************)
FinalizableUnlessRejected(result) == result # "REJECTED"

Finalizable(result) == result = "ACCEPTED"

Finalize(user, id) ==
    /\ IF id \notin DOMAIN proposals
       THEN /\ lastOp' = Op("finalize", Nobody, Nobody, 2)
            /\ UNCHANGED proposals
       ELSE IF \/ proposals[id].Status # "proposed"
               \/ ~Finalizable(TallyOf(id).QuorumResult.Result)
       THEN /\ lastOp' = Op("finalize", Nobody, Nobody, 1)
            /\ UNCHANGED proposals
       ELSE /\ writes < MaxWrites
            /\ proposals' = [proposals EXCEPT ![id].Status = "accepted"]
            /\ lastOp' = Op("finalize", user, id, 0)
    /\ writes' = IF lastOp'.exit = 0 THEN writes + 1 ELSE writes
    /\ UNCHANGED <<constitution, votes, now>>

(***************************************************************************)
(* guardian withdraw <proposal_id>                                         *)
(***************************************************************************)
Withdraw(user, id) ==
    /\ IF id \notin DOMAIN proposals
       THEN /\ lastOp' = Op("withdraw", Nobody, Nobody, 2)
            /\ UNCHANGED proposals
       ELSE IF proposals[id].Status # "proposed" \/ proposals[id].CreatedBy # user
       THEN /\ lastOp' = Op("withdraw", Nobody, Nobody, 1)
            /\ UNCHANGED proposals
       ELSE /\ writes < MaxWrites
            /\ proposals' = [proposals EXCEPT ![id].Status = "withdrawn"]
            /\ lastOp' = Op("withdraw", user, id, 0)
    /\ writes' = IF lastOp'.exit = 0 THEN writes + 1 ELSE writes
    /\ UNCHANGED <<constitution, votes, now>>

(* the wall clock advances between commands *)
Tick ==
    /\ now < MaxTime
    /\ now' = now + 1
    /\ lastOp' = Op("tick", Nobody, Nobody, 0)
    /\ UNCHANGED <<constitution, proposals, votes, writes>>

QuorumIdle == qIn = None /\ qOut = {}
RolesIdle  == rOut = {}
TallyIdle  == tProposal = None /\ tVotes = << >> /\ tally = {}
EngineIdle == eExceptions = << >> /\ eViolations = << >> /\ eActive = {} /\ eFiltered = {}
ParseIdle  == dA = << >> /\ dB = << >> /\ dOut = {}
GlobIdle   == gIn = None /\ gOut = {}
RunIdle    == rRules = << >> /\ rFiles = << >> /\ rDiff = << >> /\ rChecks = {} /\ rResult = {}
MetaIdle   == mDir = << >> /\ mOut = {}
HooksIdle  == hRepo = FALSE /\ hHooks = << >> /\ hLast = None
CheckersIdle == ParseIdle /\ GlobIdle /\ RunIdle /\ MetaIdle /\ HooksIdle
GovIdle    == proposals = << >> /\ votes = << >> /\ lastOp = Op(None, Nobody, Nobody, 0) /\ writes = 0 /\ rejected = {}

Init ==
    /\ constitution \in GovConstitutions
    /\ proposals = << >>
    /\ votes = << >>
    /\ now = 0
    /\ lastOp = Op(None, Nobody, Nobody, 0)
    /\ writes = 0
    /\ rejected = {}
    /\ QuorumIdle /\ RolesIdle /\ TallyIdle /\ EngineIdle /\ CheckersIdle

(* a command or a clock tick, with the history of REJECTED tallies kept *)
Recorded ==
    rejected' =
        IF lastOp'.exit # 0 THEN rejected    \* a failed command changed nothing
        ELSE rejected \cup
             { id \in DOMAIN proposals' :
                 TallyIn(proposals', votes', now', id).QuorumResult.Result = "REJECTED" }

Next ==
    \/ \E u \in Users, r \in GovRuleIDs, ty \in ProposalTypes :
          Propose(u, r, ty) /\ Recorded /\ UNCHANGED <<quorumVars, rOut, tallyVars, engineVars, checkerVars>>
    \/ \E u \in Users, id \in AllProposalIDs, d \in {"yes", "no"} :
          Vote(u, id, d) /\ Recorded /\ UNCHANGED <<quorumVars, rOut, tallyVars, engineVars, checkerVars>>
    \/ \E u \in Users, id \in AllProposalIDs :
          Finalize(u, id) /\ Recorded /\ UNCHANGED <<quorumVars, rOut, tallyVars, engineVars, checkerVars>>
    \/ \E u \in Users, id \in AllProposalIDs :
          Withdraw(u, id) /\ Recorded /\ UNCHANGED <<quorumVars, rOut, tallyVars, engineVars, checkerVars>>
    \/ Tick /\ Recorded /\ UNCHANGED <<quorumVars, rOut, tallyVars, engineVars, checkerVars>>

Spec == Init /\ [][Next]_vars

(***************************************************************************)
(* CalculateQuorum on its own                                              *)
(***************************************************************************)
QuorumInputs ==
    [qc : QuorumConfigs, totalEligible : 0..MaxEligible,
     yesVotes : 0..MaxEligible, noVotes : 0..MaxEligible]

InitQuorum ==
    /\ qIn \in QuorumInputs
    /\ qOut = {}
    /\ constitution = None /\ now = 0
    /\ GovIdle /\ RolesIdle /\ TallyIdle /\ EngineIdle /\ CheckersIdle

RunCalculateQuorum ==
    /\ qOut = {}
    /\ qOut' = {CalculateQuorum(qIn.qc, qIn.totalEligible, qIn.yesVotes, qIn.noVotes)}
    /\ UNCHANGED <<constitution, now, govVars, qIn, rOut, tallyVars, engineVars, checkerVars>>

NextQuorum == RunCalculateQuorum

SpecQuorum == InitQuorum /\ [][NextQuorum]_vars

(***************************************************************************)
(* GetEligibleVoters on its own                                            *)
(***************************************************************************)
SeqsUpTo(S, n) == UNION { [1..k -> S] : k \in 0..n }

RoleNames == {"lead", "arch", "ghost"}

RoleConstitutions ==
    { Constitution(Roster(vs, [r \in {"lead", "arch"} |-> IF r = "lead" THEN lead ELSE arch]),
                   Majority, FALSE, FALSE, 0, NoOverrides) :
        vs \in SeqsUpTo(RoleNames, MaxVoterRefs),
        lead \in SeqsUpTo(Users, MaxMembers),
        arch \in SeqsUpTo(Users, MaxMembers) }

InitRoles ==
    /\ constitution \in RoleConstitutions
    /\ rOut = {}
    /\ now = 0
    /\ GovIdle /\ QuorumIdle /\ TallyIdle /\ EngineIdle /\ CheckersIdle

RunGetEligibleVoters ==
    /\ rOut = {}
    /\ rOut' = {GetEligibleVoters(constitution)}
    /\ UNCHANGED <<constitution, now, govVars, quorumVars, tallyVars, engineVars, checkerVars>>

NextRoles == RunGetEligibleVoters

SpecRoles == InitRoles /\ [][NextRoles]_vars

(***************************************************************************)
(* ComputeTally on its own: the votes are whatever the votes directory     *)
(* holds, eligible or not                                                  *)
(***************************************************************************)
TallyConstitutions ==
    { Constitution(ro, qc, FALSE, FALSE, ttl, ov) :
        ro \in Rosters, qc \in {Majority, Unanimous},
        ttl \in 0..MaxTtlDays, ov \in {NoOverrides, OverrideR2} }

TallyProposals ==
    { [ID |-> ProposalID(0, r), RuleID |-> r, ProposalType |-> "modify",
       CreatedBy |-> Alice, CreatedAt |-> 0, Status |-> "proposed"] : r \in RuleIDs }

InitTally ==
    /\ constitution \in TallyConstitutions
    /\ tProposal \in TallyProposals
    /\ tVotes = << >>
    /\ tally = {}
    /\ now = 0
    /\ GovIdle /\ QuorumIdle /\ RolesIdle /\ EngineIdle /\ CheckersIdle

TallyWithVote(email, decision) ==
    /\ Len(tVotes) < MaxVotes
    /\ tVotes' = Append(tVotes, [ProposalID |-> tProposal.ID, VoterEmail |-> email,
                                 Decision |-> decision])
    /\ tally' = {ComputeTally(tProposal, tVotes', constitution, now)}
    /\ UNCHANGED <<constitution, now, tProposal, govVars, quorumVars, rOut, engineVars, checkerVars>>

TallyLater ==
    /\ now < MaxTime
    /\ now' = now + 1
    /\ tally' = {ComputeTally(tProposal, tVotes, constitution, now')}
    /\ UNCHANGED <<constitution, tProposal, tVotes, govVars, quorumVars, rOut, engineVars, checkerVars>>

NextTally ==
    \/ \E u \in Users, d \in {"yes", "no"} : TallyWithVote(u, d)
    \/ TallyLater

SpecTally == InitTally /\ [][NextTally]_vars

(***************************************************************************)
(* Engine.applyExceptions                                                  *)
(***************************************************************************)
Separator == "/"

(* filepath.Match for patterns of literals, '*' and '?'; an unclosed '['   *)
(* is ErrBadPattern                                                        *)
RECURSIVE GlobMatches(_, _)
GlobMatches(pattern, name) ==
    IF pattern = << >> THEN name = << >>
    ELSE IF Head(pattern) = "*"
         THEN \/ GlobMatches(Tail(pattern), name)
              \/ /\ name # << >>
                 /\ Head(name) # Separator
                 /\ GlobMatches(pattern, Tail(name))
    ELSE IF name = << >> THEN FALSE
    ELSE IF Head(pattern) = "?"
         THEN Head(name) # Separator /\ GlobMatches(Tail(pattern), Tail(name))
    ELSE Head(pattern) = Head(name) /\ GlobMatches(Tail(pattern), Tail(name))

Match(pattern, name) ==
    IF "[" \in Range(pattern)
    THEN [matched |-> FALSE, err |-> TRUE]
    ELSE [matched |-> GlobMatches(pattern, name), err |-> FALSE]

ExpiredAtOrBefore(exc, t) == \E at \in exc.ExpiresAt : at <= t

(* exc.ExpiresAt != nil && exc.ExpiresAt.Before(now); ExpiresAt is {} for nil *)
Expired(exc, t) == \E at \in exc.ExpiresAt : at < t

RECURSIVE ActiveExceptions(_, _)
ActiveExceptions(exceptions, t) ==
    IF exceptions = << >> THEN << >>
    ELSE (IF Expired(Head(exceptions), t) THEN << >> ELSE <<Head(exceptions)>>)
         \o ActiveExceptions(Tail(exceptions), t)

isExceptedByAnyRule(v, exceptions) ==
    \E i \in 1..Len(exceptions) :
        \E j \in 1..Len(exceptions[i].Paths) :
            LET m == Match(exceptions[i].Paths[j], v.FilePath)
            IN  ~m.err /\ m.matched

isExcepted(v, exceptions) ==
    \E i \in 1..Len(exceptions) :
        /\ exceptions[i].RuleID = v.RuleID
        /\ \E j \in 1..Len(exceptions[i].Paths) :
              LET m == Match(exceptions[i].Paths[j], v.FilePath)
              IN  ~m.err /\ m.matched

RECURSIVE FilterViolations(_, _)
FilterViolations(violations, activeExceptions) ==
    IF violations = << >> THEN << >>
    ELSE (IF isExcepted(Head(violations), activeExceptions)
          THEN << >> ELSE <<Head(violations)>>)
         \o FilterViolations(Tail(violations), activeExceptions)

applyExceptions(violations, exceptions, t) ==
    LET activeExceptions == ActiveExceptions(exceptions, t)
    IN  [active   |-> activeExceptions,
         filtered |-> IF Len(activeExceptions) = 0 THEN violations
                      ELSE FilterViolations(violations, activeExceptions)]

PatDirStar == <<"a", "/", "*">>
PatStar    == <<"*">>
PatBad     == <<"[">>
PathLists  == { << >>, <<PatDirStar>>, <<PatBad, PatStar>> }

PathAB == <<"a", "/", "b">>
PathB  == <<"b">>
FilePaths == {PathAB, PathB}

MaxExpiresAt == 2

(* expires_at: nil, or a time *)
ExpiryTimes == {{}} \cup { {t} : t \in 1..MaxExpiresAt }

ExceptionPool ==
    [RuleID : RuleIDs, Paths : PathLists, ExpiresAt : ExpiryTimes]

ViolationPool == [RuleID : RuleIDs, FilePath : FilePaths]

InitEngine ==
    /\ eExceptions \in SeqsUpTo(ExceptionPool, MaxExceptions)
    /\ eViolations \in SeqsUpTo(ViolationPool, MaxViolations)
    /\ eActive = {}
    /\ eFiltered = {}
    /\ now \in 0..MaxTime
    /\ constitution = None
    /\ GovIdle /\ QuorumIdle /\ RolesIdle /\ TallyIdle /\ CheckersIdle

RunApplyExceptions ==
    /\ eFiltered = {}
    /\ LET r == applyExceptions(eViolations, eExceptions, now)
       IN  /\ eActive' = {r.active}
           /\ eFiltered' = {r.filtered}
    /\ UNCHANGED <<constitution, now, govVars, quorumVars, rOut, tallyVars,
                   eExceptions, eViolations, checkerVars>>

NextEngine == RunApplyExceptions

SpecEngine == InitEngine /\ [][NextEngine]_vars

(***************************************************************************)
(* strings                                                                 *)
(***************************************************************************)
HasPrefix(s, prefix) == Len(s) >= Len(prefix) /\ SubSeq(s, 1, Len(prefix)) = prefix

TrimPrefix(s, prefix) == IF HasPrefix(s, prefix) THEN SubSeq(s, Len(prefix) + 1, Len(s)) ELSE s

Contains(s, substr) ==
    \E i \in 0..(Len(s) - Len(substr)) : SubSeq(s, i + 1, i + Len(substr)) = substr

RECURSIVE Split(_, _)
Split(s, sep) ==
    IF sep \notin Range(s) THEN <<s>>
    ELSE LET i == CHOOSE k \in 1..Len(s) : s[k] = sep /\ \A j \in 1..(k - 1) : s[j] # sep
         IN  <<SubSeq(s, 1, i - 1)>> \o Split(SubSeq(s, i + 1, Len(s)), sep)

RECURSIVE Join(_, _)
Join(parts, sep) ==
    IF parts = << >> THEN << >>
    ELSE IF Len(parts) = 1 THEN parts[1]
    ELSE parts[1] \o <<sep>> \o Join(Tail(parts), sep)

RECURSIVE TrimLeft(_, _)
TrimLeft(s, ch) == IF s # << >> /\ Head(s) = ch THEN TrimLeft(Tail(s), ch) ELSE s

RECURSIVE TrimRight(_, _)
TrimRight(s, ch) ==
    IF s # << >> /\ s[Len(s)] = ch THEN TrimRight(SubSeq(s, 1, Len(s) - 1), ch) ELSE s

(***************************************************************************)
(* ParseDiff                                                               *)
(***************************************************************************)
NewLine == "\n"

DiffGitMarker == <<"d", "i", "f", "f", " ", "-", "-", "g", "i", "t", " ">>
NewPathMarker == <<"+", "+", "+", " ", "b", "/">>
OldPathMarker == <<"-", "-", "-", " ">>
HunkMarker    == <<"@", "@">>

FileDiff(path, addedLines) == [Path |-> path, AddedLines |-> addedLines]

(* if current != nil { result = append(result, *current) }; current is {} for nil *)
FlushCurrent(result, current) ==
    IF current = {} THEN result ELSE Append(result, CHOOSE fd \in current : TRUE)

DropLast(result, current) == result

(* the same, after the last line *)
FlushLast(result, current) == FlushCurrent(result, current)

RECURSIVE ScanDiffLines(_, _, _)
ScanDiffLines(lines, result, current) ==
    IF lines = << >> THEN FlushLast(result, current)
    ELSE LET line == Head(lines)
             rest == Tail(lines)
         IN  IF HasPrefix(line, DiffGitMarker)
             THEN ScanDiffLines(rest, FlushCurrent(result, current), {FileDiff(<< >>, << >>)})
             ELSE IF HasPrefix(line, NewPathMarker)
             THEN ScanDiffLines(rest, result,
                                { FileDiff(TrimPrefix(line, NewPathMarker), fd.AddedLines) :
                                    fd \in current })
             ELSE IF HasPrefix(line, OldPathMarker) \/ HasPrefix(line, HunkMarker)
             THEN ScanDiffLines(rest, result, current)
             ELSE IF HasPrefix(line, <<"+">>)
             THEN ScanDiffLines(rest, result,
                                { FileDiff(fd.Path, Append(fd.AddedLines, Tail(line))) :
                                    fd \in current })
             ELSE ScanDiffLines(rest, result, current)

ParseDiff(diffContent) ==
    IF diffContent = << >> THEN << >>
    ELSE ScanDiffLines(Split(diffContent, NewLine), << >>, {})

(* lines of `git diff` output; every line ends with a newline *)
LineDiffGit  == <<"d", "i", "f", "f", " ", "-", "-", "g", "i", "t", " ", "f">>
LineNewF     == <<"+", "+", "+", " ", "b", "/", "f">>
LineNewSG    == <<"+", "+", "+", " ", "b", "/", "s", "/", "g">>
LineOld      == <<"-", "-", "-", " ", "a", "/", "f">>
LineHunk     == <<"@", "@", " ", "1">>
LineAddX     == <<"+", "x">>
LineAddEmpty == <<"+">>
LineContext  == <<" ", "x">>
LineRemoved  == <<"-", "x">>

DiffLinePool ==
    {LineDiffGit, LineNewF, LineNewSG, LineOld, LineHunk, LineAddX, LineAddEmpty, LineContext,
     LineRemoved}

RECURSIVE JoinLines(_)
JoinLines(lines) ==
    IF lines = << >> THEN << >>
    ELSE Head(lines) \o <<NewLine>> \o JoinLines(Tail(lines))

MaxDiffLines == 3

InitParse ==
    /\ dA \in { JoinLines(ls) : ls \in SeqsUpTo(DiffLinePool, MaxDiffLines) }
    /\ dB \in { JoinLines(<<LineDiffGit>> \o ls) : ls \in SeqsUpTo(DiffLinePool, MaxDiffLines - 1) }
    /\ dOut = {}
    /\ constitution = None /\ now = 0
    /\ GovIdle /\ QuorumIdle /\ RolesIdle /\ TallyIdle /\ EngineIdle
    /\ GlobIdle /\ RunIdle /\ MetaIdle /\ HooksIdle

RunParseDiff ==
    /\ dOut = {}
    /\ dOut' = {[a |-> ParseDiff(dA), b |-> ParseDiff(dB), ab |-> ParseDiff(dA \o dB)]}
    /\ UNCHANGED <<constitution, now, govVars, quorumVars, rOut, tallyVars, engineVars,
                   hookVars, dA, dB, globVars, runVars, metaVars>>

NextParse == RunParseDiff

SpecParse == InitParse /\ [][NextParse]_vars

(***************************************************************************)
(* globMatch, matchesAnyGlob                                               *)
(***************************************************************************)
DoubleStar == <<"*", "*">>

(* strings.SplitN(pattern, "**", 2), for a pattern that contains "**" *)
SplitDoubleStar(pattern) ==
    LET i == CHOOSE k \in 1..(Len(pattern) - 1) :
                 /\ SubSeq(pattern, k, k + 1) = DoubleStar
                 /\ \A j \in 1..(k - 1) : SubSeq(pattern, j, j + 1) # DoubleStar
    IN  <<SubSeq(pattern, 1, i - 1), SubSeq(pattern, i + 2, Len(pattern))>>

RawSuffix(afterStars) == afterStars

GlobSuffix(afterStars) == TrimLeft(afterStars, "/")

globMatch(path, pattern) ==
    IF Contains(pattern, DoubleStar)
    THEN LET parts  == SplitDoubleStar(pattern)
             suffix == GlobSuffix(parts[2])
             prefix == IF parts[1] # << >> THEN TrimRight(parts[1], "/") ELSE parts[1]
         IN  IF parts[1] # << >> /\ ~HasPrefix(path, prefix) THEN FALSE
             ELSE IF suffix # << >>
             THEN LET remaining == IF prefix # << >>
                                   THEN TrimLeft(TrimPrefix(path, prefix), "/")
                                   ELSE path
                      pathParts == Split(remaining, "/")
                  IN  \E i \in 1..Len(pathParts) :
                          Match(suffix, Join(SubSeq(pathParts, i, Len(pathParts)), "/")).matched
             ELSE TRUE
    ELSE Match(pattern, path).matched

matchesAnyGlob(file, globs) == \E i \in 1..Len(globs) : globMatch(file, globs[i])

MaxGlobLen == 5

PatternChars == {"a", "/", "*"}
PathChars    == {"a", "b", "/"}

InitGlob ==
    /\ gIn \in [path : SeqsUpTo(PathChars, MaxGlobLen), pattern : SeqsUpTo(PatternChars, MaxGlobLen)]
    /\ gOut = {}
    /\ constitution = None /\ now = 0
    /\ GovIdle /\ QuorumIdle /\ RolesIdle /\ TallyIdle /\ EngineIdle
    /\ ParseIdle /\ RunIdle /\ MetaIdle /\ HooksIdle

RunGlobMatch ==
    /\ gOut = {}
    /\ gOut' = {globMatch(gIn.path, gIn.pattern)}
    /\ UNCHANGED <<constitution, now, govVars, quorumVars, rOut, tallyVars, engineVars,
                   hookVars, gIn, parseVars, runVars, metaVars>>

NextGlob == RunGlobMatch

SpecGlob == InitGlob /\ [][NextGlob]_vars

(***************************************************************************)
(* Rule checkers                                                           *)
(***************************************************************************)
NoError == "nil"

(* a value of a rule's config map: a list of strings, or something else *)
List(items) == [isList |-> TRUE, items |-> items]
Scalar      == [isList |-> FALSE, items |-> << >>]

getStringSlice(cfg, key) ==
    IF key \notin DOMAIN cfg THEN [val |-> << >>, err |-> "ConfigError"]
    ELSE IF ~cfg[key].isList THEN [val |-> << >>, err |-> "ConfigError"]
    ELSE [val |-> cfg[key].items, err |-> NoError]

CompilesAnything(pattern) == TRUE

(* regexp.Compile, for patterns of literal characters and "(": an unclosed *)
(* group does not compile                                                  *)
Compiles(pattern) == "(" \notin Range(pattern)

(* re.MatchString, for a compiled pattern of literal characters *)
MatchString(re, line) == Contains(line, re)

Violation(ctx, filePath, diffSnippet) ==
    [RuleID |-> ctx.RuleID, Severity |-> ctx.Severity, FilePath |-> filePath,
     DiffSnippet |-> diffSnippet]

Failed(kind) == [violations |-> << >>, err |-> kind]
Found(violations) == [violations |-> violations, err |-> NoError]

filterFilesByGlobs(files, globs) ==
    SelectSeq(files, LAMBDA f : matchesAnyGlob(f, globs))

RECURSIVE Flatten(_)
Flatten(seqs) == IF seqs = << >> THEN << >> ELSE Head(seqs) \o Flatten(Tail(seqs))

MatchesAny(line, compiled) == \E k \in 1..Len(compiled) : MatchString(compiled[k], line)

(* the violations of one FileDiff: one per added line that matches a regex *)
ForbiddenInFile(ctx, fd, compiled) ==
    LET hits == SelectSeq(fd.AddedLines, LAMBDA line : MatchesAny(line, compiled))
    IN  [i \in 1..Len(hits) |-> Violation(ctx, fd.Path, <<"+">> \o hits[i])]

DiffPatternForbiddenCheck(ctx) ==
    LET forbiddenRegexes == getStringSlice(ctx.RuleConfig, "forbidden_regexes")
        onlyInPaths      == getStringSlice(ctx.RuleConfig, "only_in_paths").val
        filesToCheck     == IF Len(onlyInPaths) > 0
                            THEN filterFilesByGlobs(ctx.ChangedFiles, onlyInPaths)
                            ELSE ctx.ChangedFiles
        fileDiffs        == ParseDiff(ctx.DiffContent)
    IN  IF forbiddenRegexes.err # NoError THEN Failed("ConfigError")
        ELSE IF \E k \in 1..Len(forbiddenRegexes.val) : ~Compiles(forbiddenRegexes.val[k])
        THEN Failed("PatternError")
        ELSE IF Len(onlyInPaths) > 0 /\ Len(filesToCheck) = 0 THEN Found(<< >>)
        ELSE Found(Flatten([i \in 1..Len(fileDiffs) |->
                              IF fileDiffs[i].Path \in Range(filesToCheck)
                              THEN ForbiddenInFile(ctx, fileDiffs[i], forbiddenRegexes.val)
                              ELSE << >>]))

LinesOfMatchedFiles(fileDiffs, matchedFiles) ==
    Flatten([i \in 1..Len(fileDiffs) |->
               IF fileDiffs[i].Path \in Range(matchedFiles) THEN fileDiffs[i].AddedLines
               ELSE << >>])

(* the added lines the requires checker searches: those of every FileDiff *)
LinesSearched(fileDiffs, matchedFiles) ==
    Flatten([i \in 1..Len(fileDiffs) |-> fileDiffs[i].AddedLines])

DiffPatternRequiresCheck(ctx) ==
    LET requiredRegexes == getStringSlice(ctx.RuleConfig, "required_regexes")
        onlyInPaths     == getStringSlice(ctx.RuleConfig, "only_in_paths")
        matchedFiles    == filterFilesByGlobs(ctx.ChangedFiles, onlyInPaths.val)
        addedLines      == LinesSearched(ParseDiff(ctx.DiffContent), matchedFiles)
    IN  IF requiredRegexes.err # NoError \/ onlyInPaths.err # NoError
        THEN Failed("ConfigError")
        ELSE IF Len(matchedFiles) = 0 THEN Found(<< >>)
        ELSE IF \E k \in 1..Len(requiredRegexes.val) : ~Compiles(requiredRegexes.val[k])
        THEN Failed("PatternError")
        ELSE IF \E i \in 1..Len(addedLines) : MatchesAny(addedLines[i], requiredRegexes.val)
        THEN Found(<< >>)
        ELSE Found(<<Violation(ctx, matchedFiles[1], << >>)>>)

(* extractPathSegments: "infra/**" yields "infra" *)
extractPathSegments(globs) ==
    SelectSeq([i \in 1..Len(globs) |-> TrimRight(TrimRight(globs[i], "*"), "/")],
              LAMBDA seg : seg # << >>)

containsSegment(line, segment) ==
    Contains(line, segment \o <<"/">>) \/ Contains(line, segment \o <<".">>)

ImportsInFile(ctx, file, fd, forbidSegments) ==
    LET hits == SelectSeq(fd.AddedLines,
                          LAMBDA line : \E k \in 1..Len(forbidSegments) :
                                            containsSegment(line, forbidSegments[k]))
    IN  [i \in 1..Len(hits) |-> Violation(ctx, file, <<"+">> \o hits[i])]

ImportsForbiddenCheck(ctx) ==
    LET fromGlobs      == getStringSlice(ctx.RuleConfig, "from_globs")
        forbidGlobs    == getStringSlice(ctx.RuleConfig, "forbid_globs")
        fileDiffs      == ParseDiff(ctx.DiffContent)
        forbidSegments == extractPathSegments(forbidGlobs.val)
        (* diffMap[path]: the last FileDiff with that path *)
        diffOf(file)   == LET at == { i \in 1..Len(fileDiffs) : fileDiffs[i].Path = file }
                          IN  { fileDiffs[i] : i \in { j \in at : \A k \in at : k <= j } }
    IN  IF fromGlobs.err # NoError \/ forbidGlobs.err # NoError THEN Failed("ConfigError")
        ELSE Found(Flatten([i \in 1..Len(ctx.ChangedFiles) |->
                LET file == ctx.ChangedFiles[i]
                IN  IF ~matchesAnyGlob(file, fromGlobs.val) \/ diffOf(file) = {} THEN << >>
                    ELSE ImportsInFile(ctx, file, CHOOSE fd \in diffOf(file) : TRUE,
                                       forbidSegments)]))

(* Registry, as the package's init() fills it *)
Registry == {"imports_forbidden", "diff_pattern_forbidden", "diff_pattern_requires"}

CheckContext(rule, changedFiles, diffContent) ==
    [ChangedFiles |-> changedFiles, DiffContent |-> diffContent, RuleConfig |-> rule.Config,
     Severity |-> rule.Severity, RuleID |-> rule.ID]

(* checker.Check(ctx), for the checker registered under the rule's type *)
Check(rule, changedFiles, diffContent) ==
    LET ctx == CheckContext(rule, changedFiles, diffContent)
    IN  CASE rule.Type = "diff_pattern_forbidden" -> DiffPatternForbiddenCheck(ctx)
          [] rule.Type = "diff_pattern_requires"  -> DiffPatternRequiresCheck(ctx)
          [] rule.Type = "imports_forbidden"      -> ImportsForbiddenCheck(ctx)

(***************************************************************************)
(* One checker call: Check on a rule, a list of changed files and a diff   *)
(***************************************************************************)
PathF  == <<"f">>
PathSG == <<"s", "/", "g">>
GlobSAll == <<"s", "/", "*", "*">>

LineAddXY == <<"+", "x", ".", "y">>

RegexX   == <<"x">>
RegexY   == <<"y">>
RegexBad == <<"(">>

(* the section of one file in a diff *)
DiffBlock(newPathLine, added) == <<LineDiffGit, newPathLine>> \o added

DiffBlocks ==
    { DiffBlock(p, a) : p \in {LineNewF, LineNewSG},
                        a \in {<< >>, <<LineAddX>>, <<LineAddXY>>, <<LineAddX, LineAddXY>>} }

MaxDiffBlocks == 2
MaxChangedFiles == 2

DiffPool == { JoinLines(Flatten(bs)) : bs \in SeqsUpTo(DiffBlocks, MaxDiffBlocks) }

ChangedFilesPool == SeqsUpTo({PathF, PathSG}, MaxChangedFiles)

(* a config map: a value per key that is present *)
Config(pairs) == [k \in { p[1] : p \in pairs } |-> CHOOSE v \in { p[2] : p \in pairs } : <<k, v>> \in pairs]

RegexValues == { {}, {Scalar}, {List(<<RegexX>>)}, {List(<<RegexY>>)}, {List(<<RegexBad>>)},
                 {List(<<RegexY, RegexBad>>)} }
PathValues  == { {}, {List(<< >>)}, {List(<<GlobSAll>>)}, {List(<<PathF>>)} }

PatternConfigs(regexKey) ==
    { Config({ <<regexKey, v>> : v \in rv } \cup { <<"only_in_paths", v>> : v \in pv }) :
        rv \in RegexValues, pv \in PathValues }

Severities == {"error", "warning"}

PatternRules ==
    { [ID |-> "r1", Type |-> "diff_pattern_forbidden", Severity |-> s, Config |-> c] :
        s \in Severities, c \in PatternConfigs("forbidden_regexes") }
    \cup
    { [ID |-> "r1", Type |-> "diff_pattern_requires", Severity |-> s, Config |-> c] :
        s \in Severities, c \in PatternConfigs("required_regexes") }

ImportRules ==
    { [ID |-> "r1", Type |-> "imports_forbidden", Severity |-> "error", Config |-> c] :
        c \in { Config({<<"from_globs", List(<<GlobSAll>>)>>}),
                Config({<<"from_globs", List(<<GlobSAll>>)>>,
                        <<"forbid_globs", List(<<<<"x", "/", "*", "*">>>>)>>}) } }

InitCheck ==
    /\ rRules \in { <<r>> : r \in PatternRules \cup ImportRules }
    /\ rFiles \in ChangedFilesPool
    /\ rDiff \in DiffPool
    /\ rChecks = {}
    /\ rResult = {}
    /\ constitution = None
    /\ now = 0
    /\ GovIdle /\ QuorumIdle /\ RolesIdle /\ TallyIdle /\ EngineIdle
    /\ ParseIdle /\ GlobIdle /\ MetaIdle /\ HooksIdle

RunCheck ==
    /\ rChecks = {}
    /\ rChecks' = {Check(rRules[1], rFiles, rDiff)}
    /\ UNCHANGED <<constitution, now, govVars, quorumVars, rOut, tallyVars, engineVars,
                   hookVars, parseVars, globVars, metaVars, rRules, rFiles, rDiff, rResult>>

NextCheck == RunCheck

SpecCheck == InitCheck /\ [][NextCheck]_vars

(***************************************************************************)
(* Engine.Run                                                              *)
(***************************************************************************)
CheckerNeverFailed(outcome) == FALSE

(* err != nil after checker.Check *)
CheckerFailed(outcome) == outcome.err # NoError

(* the loop over e.Rules: the error that ends it, or all the violations *)
RECURSIVE RunRules(_, _, _, _)
RunRules(rules, changedFiles, diffContent, allViolations) ==
    IF rules = << >> THEN Found(allViolations)
    ELSE IF Head(rules).Type \notin Registry THEN Failed("UnknownRuleType")
    ELSE LET outcome == Check(Head(rules), changedFiles, diffContent)
         IN  IF CheckerFailed(outcome) THEN Failed(outcome.err)
             ELSE RunRules(Tail(rules), changedFiles, diffContent,
                           allViolations \o outcome.violations)

CountSeverity(violations, severity) ==
    Len(SelectSeq(violations, LAMBDA v : v.Severity = severity))

(* Run's two results: the *EngineResult ({} for nil) and the error *)
Run(rules, exceptions, changedFiles, diffContent, t) ==
    LET all == RunRules(rules, changedFiles, diffContent, << >>)
        filtered == applyExceptions(all.violations, exceptions, t).filtered
    IN  IF all.err # NoError THEN [result |-> {}, err |-> all.err]
        ELSE [result |-> {[Violations |-> filtered,
                           Errors     |-> CountSeverity(filtered, "error"),
                           Warnings   |-> CountSeverity(filtered, "warning")]},
              err |-> NoError]

MaxRules == 2

RunRulePool ==
    { [ID |-> id, Type |-> tc[1], Severity |-> tc[2], Config |-> tc[3]] :
        id \in RuleIDs,
        tc \in { <<"diff_pattern_forbidden", "error",
                   Config({<<"forbidden_regexes", List(<<RegexX>>)>>})>>,
                 <<"diff_pattern_forbidden", "warning",
                   Config({<<"forbidden_regexes", List(<<RegexY, RegexBad>>)>>})>>,
                 <<"diff_pattern_forbidden", "error", Config({})>>,
                 <<"diff_pattern_requires", "warning",
                   Config({<<"required_regexes", List(<<RegexY>>)>>,
                           <<"only_in_paths", List(<<GlobSAll>>)>>})>>,
                 <<"diff_pattern_requires", "error",
                   Config({<<"required_regexes", List(<<RegexBad>>)>>,
                           <<"only_in_paths", List(<<GlobSAll>>)>>})>>,
                 <<"imports_forbidden", "error",
                   Config({<<"from_globs", List(<<GlobSAll>>)>>,
                           <<"forbid_globs", List(<<<<"x", "/", "*", "*">>>>)>>})>>,
                 <<"custom", "error", Config({})>> } }

RunDiffPool == { JoinLines(Flatten(bs)) : bs \in SeqsUpTo(DiffBlocks, 1) }

RunExceptionPool == { [RuleID |-> "r1", Paths |-> <<PatStar>>, ExpiresAt |-> {}] }

InitRun ==
    /\ rRules \in SeqsUpTo(RunRulePool, MaxRules)
    /\ rFiles \in ChangedFilesPool
    /\ rDiff \in RunDiffPool
    /\ rChecks = {}
    /\ rResult = {}
    /\ eExceptions \in SeqsUpTo(RunExceptionPool, 1)
    /\ eViolations = << >> /\ eActive = {} /\ eFiltered = {}
    /\ constitution = None
    /\ now = 0
    /\ GovIdle /\ QuorumIdle /\ RolesIdle /\ TallyIdle
    /\ ParseIdle /\ GlobIdle /\ MetaIdle /\ HooksIdle

RunEngine ==
    /\ rResult = {}
    /\ rResult' = {Run(rRules, eExceptions, rFiles, rDiff, now)}
    /\ UNCHANGED <<constitution, now, govVars, quorumVars, rOut, tallyVars, engineVars,
                   hookVars, parseVars, globVars, metaVars, rRules, rFiles, rDiff, rChecks>>

NextRun == RunEngine

SpecRun == InitRun /\ [][NextRun]_vars

(***************************************************************************)
(* MetaChecker                                                             *)
(***************************************************************************)
ConstitutionPath == <<".", "a", "g", "r", "e", "e", "m", "e", "n", "t", "s", "/", "c", "o", "n", "s", "t", "i", "t", "u", "t", "i", "o", "n", ".", "y", "m", "l">>
RulesPath        == <<".", "a", "g", "r", "e", "e", "m", "e", "n", "t", "s", "/", "r", "u", "l", "e", "s", ".", "y", "m", "l">>
protectedFiles   == <<ConstitutionPath, RulesPath>>

ToSlash(path) == ReplaceAll(path, Separator, <<"/">>)

isProtectedFile(file) ==
    LET normalized == ToSlash(file)
    IN  \E i \in 1..Len(protectedFiles) : normalized = protectedFiles[i]

(* filepath.Ext: the suffix of the name from its last dot on *)
Ext(name) ==
    LET dots == { i \in 1..Len(name) : name[i] = "." }
    IN  IF dots = {} THEN << >>
        ELSE SubSeq(name, CHOOSE i \in dots : \A j \in dots : j <= i, Len(name))

LowerChar(c) ==
    CASE c = "A" -> "a" [] c = "L" -> "l" [] c = "M" -> "m" [] c = "Y" -> "y" [] OTHER -> c

ToLower(s) == [i \in 1..Len(s) |-> LowerChar(s[i])]

IsYamlExt(name) == ToLower(Ext(name)) \in {<<".", "y", "m", "l">>, <<".", "y", "a", "m", "l">>}

StatusMarker == <<"s", "t", "a", "t", "u", "s", ":", " ", "a", "c", "c", "e", "p", "t", "e", "d">>

(* a plain YAML scalar, or a single-quoted one when plain it would read    *)
(* as a mapping                                                            *)
YamlScalar(s) == IF Contains(s, <<":", " ">>) THEN <<"'">> \o s \o <<"'">> ELSE s

(* yaml.Marshal of a Proposal, for its reason and status fields *)
Marshal(p) ==
    <<"r", "e", "a", "s", "o", "n", ":", " ">> \o YamlScalar(p.Reason) \o <<NewLine>>
    \o <<"s", "t", "a", "t", "u", "s", ":", " ">> \o p.Status \o <<NewLine>>

(* os.ReadFile of a proposal file that SaveProposal wrote *)
ReadFile(entry) == Marshal(entry.Proposal)

(* strings.Contains(content, "status: accepted") *)
MarksAccepted(content) == Contains(content, StatusMarker)

(* dir: [state, files], files a function from the entry names *)
hasAcceptedProposal(dir) ==
    IF dir.state = "missing" THEN [has |-> FALSE, err |-> NoError]
    ELSE IF dir.state # "ok" THEN [has |-> FALSE, err |-> "ReadDirError"]
    ELSE [has |-> \E name \in DOMAIN dir.files :
                      /\ ~dir.files[name].IsDir
                      /\ IsYamlExt(name)
                      /\ MarksAccepted(ReadFile(dir.files[name])),
          err |-> NoError]

MetaViolation(file) ==
    [RuleID |-> "meta_check", Severity |-> "error", FilePath |-> file, DiffSnippet |-> << >>]

MetaCheck(changedFiles, proposalsDir) ==
    LET protected == SelectSeq(changedFiles, isProtectedFile)
        accepted  == hasAcceptedProposal(proposalsDir)
    IN  IF protected = << >> THEN Found(<< >>)
        ELSE IF accepted.err # NoError THEN Failed(accepted.err)
        ELSE IF accepted.has THEN Found(<< >>)
        ELSE Found([i \in 1..Len(protected) |-> MetaViolation(protected[i])])

ProposalStatuses == {<<"p", "r", "o", "p", "o", "s", "e", "d">>, <<"a", "c", "c", "e", "p", "t", "e", "d">>, <<"r", "e", "j", "e", "c", "t", "e", "d">>}
Reasons == {<<"x">>, StatusMarker}

ProposalEntries ==
    [IsDir : {FALSE}, Proposal : [Reason : Reasons, Status : ProposalStatuses]]
    \cup {[IsDir |-> TRUE, Proposal |-> [Reason |-> << >>, Status |-> << >>]]}

EntryNames == {<<"p", ".", "y", "m", "l">>, <<"q", ".", "Y", "A", "M", "L">>, <<"n", ".", "t", "x", "t">>}

ProposalDirs ==
    {[state |-> "missing", files |-> << >>], [state |-> "denied", files |-> << >>]}
    \cup { [state |-> "ok", files |-> f] :
             f \in UNION { [names -> ProposalEntries] : names \in SUBSET EntryNames } }

MetaChangedFiles ==
    SeqsUpTo({ConstitutionPath, RulesPath, <<".", "a", "g", "r", "e", "e", "m", "e", "n", "t", "s", "/", "x", ".", "y", "m", "l">>, PathF}, MaxChangedFiles)

InitMeta ==
    /\ rFiles \in MetaChangedFiles
    /\ mDir \in ProposalDirs
    /\ mOut = {}
    /\ rRules = << >> /\ rDiff = << >> /\ rChecks = {} /\ rResult = {}
    /\ constitution = None
    /\ now = 0
    /\ GovIdle /\ QuorumIdle /\ RolesIdle /\ TallyIdle /\ EngineIdle
    /\ ParseIdle /\ GlobIdle /\ HooksIdle

RunMetaCheck ==
    /\ mOut = {}
    /\ mOut' = {MetaCheck(rFiles, mDir)}
    /\ UNCHANGED <<constitution, now, govVars, quorumVars, rOut, tallyVars, engineVars,
                   hookVars, parseVars, globVars, runVars, mDir>>

NextMeta == RunMetaCheck

SpecMeta == InitMeta /\ [][NextMeta]_vars

(***************************************************************************)
(* calculateRequired for larger electorates                                *)
(***************************************************************************)
MaxRequiredEligible == 25

Unknown == [Type |-> "supermajority", Num |-> 0, Den |-> 1]

(* thresholds as constitution.yml writes them: 0.5, 0.2, 0.28, 0.6, 1.0 *)
RequiredConfigs ==
    {Majority, TwoThirds, Unanimous, Untyped, Unknown,
     Custom(1, 2), Custom(2, 10), Custom(28, 100), Custom(6, 10), Custom(1, 1)}

InitRequired ==
    /\ qIn \in [qc : RequiredConfigs, totalEligible : 0..MaxRequiredEligible,
                yesVotes : {0}, noVotes : {0}]
    /\ qOut = {}
    /\ constitution = None /\ now = 0
    /\ GovIdle /\ RolesIdle /\ TallyIdle /\ EngineIdle /\ CheckersIdle

SpecRequired == InitRequired /\ [][NextQuorum]_vars

(***************************************************************************)
(* hooks install / hooks uninstall                                         *)
(***************************************************************************)
HookMarker == <<"#", " ", "G", "U", "A", "R", "D", "I", "A", "N", "-", "M", "A", "N", "A", "G", "E", "D", "-", "H", "O", "O", "K">>

hookScript ==
    <<"#", "!", "/", "b", "i", "n", "/", "s", "h">> \o <<NewLine>> \o HookMarker \o <<NewLine>>
    \o <<"n", "o", "h", "u", "p", " ", "g", "u", "a", "r", "d", "i", "a", "n", " ", "i", "n", "b", "o", "x", " ", "-", "-", "n", "o", "t", "i", "f", "y", " ", "-", "-", "s", "i", "n", "c", "e", "-", "l", "a", "s", "t", "-", "c", "h", "e", "c", "k", " ", "-", "-", "q", "u", "i", "e", "t", " ", "&", ">", "/", "d", "e", "v", "/", "n", "u", "l", "l", " ", "&">>
    \o <<NewLine>>

hookNames == <<"post-merge", "post-checkout">>

AnyHookManaged(data) == TRUE

(* strings.Contains(string(data), HookMarker) *)
IsManaged(data) == Contains(data, HookMarker)

HookOp(cmd, err, hook) == [cmd |-> cmd, err |-> err, hook |-> hook]

(* the loop of InstallHooks from the hooks `names` on: the files it leaves *)
(* and the error it returns                                                *)
RECURSIVE InstallLoop(_, _)
InstallLoop(names, hooks) ==
    IF names = << >> THEN [hooks |-> hooks, err |-> NoError, hook |-> None]
    ELSE LET name == Head(names)
         IN  IF \E data \in hooks[name] : ~IsManaged(data)
             THEN [hooks |-> hooks, err |-> "not managed by guardian", hook |-> name]
             ELSE InstallLoop(Tail(names), [hooks EXCEPT ![name] = {hookScript}])

RECURSIVE UninstallLoop(_, _)
UninstallLoop(names, hooks) ==
    IF names = << >> THEN [hooks |-> hooks, err |-> NoError, hook |-> None]
    ELSE LET name == Head(names)
         IN  IF \E data \in hooks[name] : IsManaged(data)
             THEN UninstallLoop(Tail(names), [hooks EXCEPT ![name] = {}])
             ELSE UninstallLoop(Tail(names), hooks)

(* getHooksDir fails outside a git repository *)
InstallHooks ==
    /\ IF ~hRepo
       THEN hHooks' = hHooks /\ hLast' = HookOp("install", "not a git repository", None)
       ELSE LET r == InstallLoop(hookNames, hHooks)
            IN  hHooks' = r.hooks /\ hLast' = HookOp("install", r.err, r.hook)
    /\ UNCHANGED <<constitution, now, govVars, quorumVars, rOut, tallyVars, engineVars,
                   parseVars, globVars, runVars, metaVars, hRepo>>

UninstallHooks ==
    /\ IF ~hRepo
       THEN hHooks' = hHooks /\ hLast' = HookOp("uninstall", "not a git repository", None)
       ELSE LET r == UninstallLoop(hookNames, hHooks)
            IN  hHooks' = r.hooks /\ hLast' = HookOp("uninstall", r.err, r.hook)
    /\ UNCHANGED <<constitution, now, govVars, quorumVars, rOut, tallyVars, engineVars,
                   parseVars, globVars, runVars, metaVars, hRepo>>

(* hooks found in a repository: none, guardian's, guardian's with lines    *)
(* added by the user, a user's own, a user's own that mentions the marker  *)
CustomHook == <<"#", "!", "/", "b", "i", "n", "/", "s", "h">> \o <<NewLine>> \o <<"e", "c", "h", "o", " ", "c", "u", "s", "t", "o", "m", " ", "h", "o", "o", "k">> \o <<NewLine>>

HookFiles ==
    { {}, {hookScript}, {hookScript \o <<"e", "c", "h", "o", " ", "x">> \o <<NewLine>>}, {CustomHook},
      {CustomHook \o HookMarker \o <<NewLine>>} }

InitHooks ==
    /\ hRepo \in BOOLEAN
    /\ hHooks \in [{"post-merge", "post-checkout"} -> HookFiles]
    /\ hLast = HookOp(None, NoError, None)
    /\ constitution = None /\ now = 0
    /\ GovIdle /\ QuorumIdle /\ RolesIdle /\ TallyIdle /\ EngineIdle
    /\ ParseIdle /\ GlobIdle /\ RunIdle /\ MetaIdle

NextHooks ==
    \/ InstallHooks
    \/ UninstallHooks

SpecHooks == InitHooks /\ [][NextHooks]_vars

(***************************************************************************)
(* Properties                                                              *)
(***************************************************************************)

(* C1: with proposal_ttl_days > 0, a tally evaluated later than createdAt  *)
(* + ttlDays days reports EXPIRED with IsExpired set, whatever the votes;  *)
(* it never reports ACCEPTED.                                              *)
PastTtl ==
    /\ constitution.ProposalTTLDays > 0
    /\ now > tProposal.CreatedAt + constitution.ProposalTTLDays * TicksPerDay

C1_ExpiryTakesPrecedence ==
    \A t \in tally :
        PastTtl => /\ t.QuorumResult.Result = "EXPIRED"
                   /\ t.IsExpired
                   /\ t.QuorumResult.Result # "ACCEPTED"

C1_Witness ==
    \E t \in tally :
        /\ PastTtl
        /\ t.QuorumResult.YesVotes >= t.QuorumResult.Required
        /\ t.QuorumResult.YesVotes > 0
        /\ t.QuorumResult.Result = "EXPIRED"

(* C2: CalculateQuorum returns ACCEPTED when yesVotes >= required,         *)
(* otherwise REJECTED when noVotes > totalEligible - required, otherwise   *)
(* PENDING: exactly one of the three, decided in that order.               *)
C2_QuorumDecision ==
    \A r \in qOut :
        LET required == calculateRequired(qIn.qc, qIn.totalEligible)
            enoughYes == qIn.yesVotes >= required
            tooManyNo == qIn.noVotes > qIn.totalEligible - required
        IN  /\ r.Result \in {"ACCEPTED", "REJECTED", "PENDING"}
            /\ (r.Result = "ACCEPTED") <=> enoughYes
            /\ (r.Result = "REJECTED") <=> (~enoughYes /\ tooManyNo)
            /\ (r.Result = "PENDING")  <=> (~enoughYes /\ ~tooManyNo)

C2_Witness ==
    \E r \in qOut :
        /\ r.Result = "ACCEPTED"
        /\ qIn.totalEligible > 0
        /\ qIn.noVotes > qIn.totalEligible - r.Required

(* C3: finalize sets a proposal's status to accepted only if the tally     *)
(* computed at that moment is ACCEPTED; when the tally is PENDING,         *)
(* REJECTED or EXPIRED, finalize fails and leaves every proposal as it     *)
(* was.                                                                    *)
C3_FinalizeOnlyAccepted ==
    [][ /\ \A id \in DOMAIN proposals :
              (proposals'[id].Status = "accepted" /\ proposals[id].Status # "accepted")
                  => /\ lastOp' = Op("finalize", lastOp'.user, id, 0)
                     /\ ResultOf(id) = "ACCEPTED"
        /\ (lastOp'.cmd = "finalize" /\ lastOp'.exit = 0)
              => /\ lastOp'.target \in DOMAIN proposals
                 /\ proposals[lastOp'.target].Status = "proposed"
                 /\ ResultOf(lastOp'.target) = "ACCEPTED"
                 /\ proposals' = [proposals EXCEPT ![lastOp'.target].Status = "accepted"]
        /\ \A u \in Users, id \in DOMAIN proposals :
              (Finalize(u, id) /\ ResultOf(id) \in {"PENDING", "REJECTED", "EXPIRED"})
                  => /\ lastOp'.cmd = "finalize"
                     /\ lastOp'.exit # 0
                     /\ proposals' = proposals
      ]_vars

C3_Witness ==
    /\ lastOp.cmd = "finalize"
    /\ lastOp.exit = 0
    /\ proposals[lastOp.target].Status = "accepted"
    /\ ResultOf(lastOp.target) = "ACCEPTED"

(* C4: at most one proposal with status proposed exists for any rule id;   *)
(* a propose that is blocked leaves the active proposal in place.          *)
ActiveProposals(ruleID) ==
    { id \in DOMAIN proposals :
        proposals[id].RuleID = ruleID /\ proposals[id].Status = "proposed" }

C4_OneActiveProposalPerRule ==
    /\ \A r \in RuleIDs : Cardinality(ActiveProposals(r)) <= 1
    /\ (lastOp.cmd = "propose" /\ lastOp.exit = 1)
          => \E r \in RuleIDs : Cardinality(ActiveProposals(r)) = 1

C4_Witness ==
    /\ lastOp.cmd = "propose"
    /\ lastOp.exit = 1
    /\ \E r \in RuleIDs :
          /\ Cardinality(ActiveProposals(r)) = 1
          /\ \E id \in DOMAIN proposals :
                proposals[id].RuleID = r /\ proposals[id].Status # "proposed"

(* C5 as claimed: once a proposal's tally has been REJECTED it is never    *)
(* ACCEPTED afterwards.                                                    *)
C5_RejectedNeverAccepted ==
    \A id \in rejected : ResultOf(id) # "ACCEPTED"

(* C5, amended: when allow_vote_change is false, once a proposal's tally   *)
(* has been REJECTED it is never ACCEPTED afterwards.                      *)
C5_RejectedNeverAcceptedWithoutVoteChange ==
    ~constitution.AllowVoteChange => \A id \in rejected : ResultOf(id) # "ACCEPTED"

C5_Witness ==
    /\ ~constitution.AllowVoteChange
    /\ lastOp.cmd = "vote"
    /\ lastOp.exit = 0
    /\ lastOp.target \in rejected
    /\ ResultOf(lastOp.target) = "PENDING"

(* C6: after exception filtering a violation is dropped iff some active    *)
(* exception (one the expiry filter kept) has the violation's ruleID and a *)
(* path pattern that matches its filePath; the survivors keep their order. *)
PathMatches(exc, v) ==
    \E j \in 1..Len(exc.Paths) :
        Match(exc.Paths[j], v.FilePath) = [matched |-> TRUE, err |-> FALSE]

Covers(exc, v) == exc.RuleID = v.RuleID /\ PathMatches(exc, v)

Survives(v, active) == ~ \E k \in 1..Len(active) : Covers(active[k], v)

C6_DroppedIffCovered ==
    \A active \in eActive : \A filtered \in eFiltered :
        LET kept == { i \in 1..Len(eViolations) : Survives(eViolations[i], active) }
        IN  /\ Len(filtered) = Cardinality(kept)
            /\ \E pos \in [1..Len(filtered) -> kept] :
                  /\ \A i, j \in 1..Len(filtered) : i < j => pos[i] < pos[j]
                  /\ \A i \in 1..Len(filtered) : filtered[i] = eViolations[pos[i]]

C6_Witness ==
    \E active \in eActive : \E filtered \in eFiltered :
        /\ Len(eViolations) = 3
        /\ Len(filtered) = 2
        /\ filtered[1] # filtered[2]
        /\ \E i \in 1..Len(eViolations) : ~Survives(eViolations[i], active)
        /\ \E i \in 1..Len(eViolations) : \E k \in 1..Len(active) :
              /\ Survives(eViolations[i], active)
              /\ PathMatches(active[k], eViolations[i])
              /\ active[k].RuleID # eViolations[i].RuleID

(* C7 as claimed: an exception is active exactly when its expiresAt is     *)
(* absent or later than now; an exception whose expiresAt is not later     *)
(* than now suppresses no violation.                                       *)
ActiveWhenLater(exc) == \A at \in exc.ExpiresAt : at > now

Dropped(filtered) ==
    { i \in 1..Len(eViolations) : eViolations[i] \notin Range(filtered) }

C7_ActiveIffExpiresLater ==
    \A active \in eActive : \A filtered \in eFiltered :
        /\ active = SelectSeq(eExceptions, ActiveWhenLater)
        /\ \A i \in Dropped(filtered) :
              \E k \in 1..Len(eExceptions) :
                  ActiveWhenLater(eExceptions[k]) /\ Covers(eExceptions[k], eViolations[i])

(* C7, amended: an exception is active exactly when its expiresAt is       *)
(* absent or not earlier than now; an exception whose expiresAt is earlier *)
(* than now suppresses no violation.                                       *)
ActiveWhenNotEarlier(exc) == \A at \in exc.ExpiresAt : at >= now

C7_ActiveIffExpiresNotEarlier ==
    \A active \in eActive : \A filtered \in eFiltered :
        /\ active = SelectSeq(eExceptions, ActiveWhenNotEarlier)
        /\ \A i \in Dropped(filtered) :
              \E k \in 1..Len(eExceptions) :
                  ActiveWhenNotEarlier(eExceptions[k]) /\ Covers(eExceptions[k], eViolations[i])

C7_Witness ==
    \E filtered \in eFiltered :
        /\ \E k \in 1..Len(eExceptions) : \E at \in eExceptions[k].ExpiresAt : at < now
        /\ \E i \in Dropped(filtered) :
              \A k \in 1..Len(eExceptions) :
                  Covers(eExceptions[k], eViolations[i]) => eExceptions[k].ExpiresAt = {now}

(* C8: the eligible-voter list holds every member of a defined voter role  *)
(* exactly once, ordered by first occurrence when the voter roles are      *)
(* scanned in declaration order; voter roles without a definition are      *)
(* skipped.                                                                *)
Occurrences(c, email) ==
    { <<i, j>> \in (1..Len(c.Voters)) \X (1..MaxMembers) :
        /\ c.Voters[i] \in DOMAIN c.Roles
        /\ j <= Len(c.Roles[c.Voters[i]])
        /\ c.Roles[c.Voters[i]][j] = email }

ScannedBefore(a, b) == a[1] < b[1] \/ (a[1] = b[1] /\ a[2] < b[2])

FirstOccurrence(c, email) ==
    CHOOSE a \in Occurrences(c, email) :
        \A b \in Occurrences(c, email) \ {a} : ScannedBefore(a, b)

C8_EligibleVotersDeduplicated ==
    \A voters \in rOut :
        /\ Range(voters) = { e \in Users : Occurrences(constitution, e) # {} }
        /\ \A i, j \in 1..Len(voters) :
              i < j => /\ voters[i] # voters[j]
                       /\ ScannedBefore(FirstOccurrence(constitution, voters[i]),
                                        FirstOccurrence(constitution, voters[j]))

C8_Witness ==
    \E voters \in rOut :
        /\ \E i \in 1..Len(constitution.Voters) :
              constitution.Voters[i] \notin DOMAIN constitution.Roles
        /\ \E e \in Users : \E a, b \in Occurrences(constitution, e) : a[1] # b[1]
                /\ constitution.Voters[a[1]] # constitution.Voters[b[1]]
        /\ Len(voters) >= 2

(* C9: the yes and no counts of a tally count exactly the votes whose      *)
(* voterEmail is a member of some defined voter role; a vote from any      *)
(* other email changes neither count, and a vote from a member of several  *)
(* voter roles counts once.                                                *)
VoterRolesOf(c, email) ==
    { r \in Range(c.Voters) \cap DOMAIN c.Roles : email \in Range(c.Roles[r]) }

EligibleVotes(decision) ==
    { i \in 1..Len(tVotes) :
        /\ tVotes[i].Decision = decision
        /\ VoterRolesOf(constitution, tVotes[i].VoterEmail) # {} }

C9_OnlyEligibleVotesCounted ==
    \A t \in tally :
        /\ t.QuorumResult.YesVotes = Cardinality(EligibleVotes("yes"))
        /\ t.QuorumResult.NoVotes = Cardinality(EligibleVotes("no"))
        /\ t.QuorumResult.TotalEligible =
              Cardinality({ e \in Users : VoterRolesOf(constitution, e) # {} })

C9_Witness ==
    \E t \in tally :
        /\ \E i \in 1..Len(tVotes) :
              /\ Cardinality(VoterRolesOf(constitution, tVotes[i].VoterEmail)) > 1
              /\ tVotes[i].Decision = "yes"
        /\ \E i \in 1..Len(tVotes) :
              /\ VoterRolesOf(constitution, tVotes[i].VoterEmail) = {}
              /\ tVotes[i].Decision = "no"
        /\ t.QuorumResult.YesVotes = 1
        /\ t.QuorumResult.NoVotes = 0
        /\ Len(tVotes) = 2

(* C10: with forbid_self_approval, no yes vote by a proposal's author is   *)
(* recorded for that proposal.                                             *)
C10_NoSelfApproval ==
    constitution.ForbidSelfApproval =>
        \A path \in DOMAIN votes :
            path[1] \in DOMAIN proposals =>
                ~ /\ votes[path].Decision = "yes"
                  /\ votes[path].VoterEmail = proposals[path[1]].CreatedBy

(* C11: with allow_vote_change false, voting again fails and leaves the    *)
(* earlier vote as it was: a recorded vote never changes or disappears,    *)
(* and a voter has at most one recorded vote per proposal.                 *)
C11_VotesNeverChange ==
    [][ ~constitution.AllowVoteChange =>
          /\ \A path \in DOMAIN votes :
                path \in DOMAIN votes' /\ votes'[path] = votes[path]
          /\ \A p, q \in DOMAIN votes' :
                (p[1] = q[1] /\ votes'[p].VoterEmail = votes'[q].VoterEmail) => p = q
      ]_vars

(* C12: finalize succeeds only when run by a person with a role listed in  *)
(* governance.voters; run by anyone else it changes no proposal.           *)
C12_FinalizeOnlyByVoter ==
    [][ \A u \in Users, id \in DOMAIN proposals :
          (Finalize(u, id) /\ ~IsVoter(constitution, u))
              => (lastOp'.exit # 0 /\ proposals' = proposals)
      ]_vars

(* C13: once proposal_ttl_days days have passed since a proposal's         *)
(* creation without it being finalized or withdrawn, a command run at that *)
(* time finds or leaves its status expired.                                *)
C13_StatusBecomesExpired ==
    \A id \in DOMAIN proposals :
        ( /\ lastOp.cmd \in {"propose", "vote", "finalize", "withdraw"}
          /\ TtlExpired(constitution.ProposalTTLDays, proposals[id].CreatedAt, now)
          /\ proposals[id].Status \notin {"accepted", "withdrawn"} )
            => proposals[id].Status = "expired"

(* C18: parsing two diffs one after the other, the second starting with a  *)
(* fresh "diff --git" line, yields the FileDiff records of the first       *)
(* followed by those of the second, unchanged.                             *)
C18_ParseDiffConcatenation ==
    \A r \in dOut : r.ab = r.a \o r.b

C18_Witness ==
    \E r \in dOut :
        /\ Len(r.a) >= 1
        /\ Len(r.b) >= 1
        /\ Len(r.ab) = Len(r.a) + Len(r.b)
        /\ r.a[Len(r.a)].Path # << >>
        /\ r.a[Len(r.a)].AddedLines # << >>
        /\ r.b[1].Path # << >>
        /\ r.b[1].AddedLines # << >>

(* C19 as claimed: for a pattern containing "**", split once at the first  *)
(* "**" into prefix and suffix, the path matches exactly when (prefix is   *)
(* empty or the path starts with prefix less its trailing "/") and (suffix *)
(* is empty or some tail of the "/"-separated segments of the path after   *)
(* the prefix matches suffix as a glob).                                   *)
StartsWithPrefix(path, prefix) == prefix = << >> \/ HasPrefix(path, TrimRight(prefix, "/"))

SomeTailMatches(remainder, suffix) ==
    LET segments == Split(remainder, "/")
    IN  \E i \in 1..Len(segments) :
            Match(suffix, Join(SubSeq(segments, i, Len(segments)), "/")) =
                [matched |-> TRUE, err |-> FALSE]

C19_DoubleStarPrefixAndTail ==
    \A matched \in gOut :
        Contains(gIn.pattern, DoubleStar) =>
            LET prefix    == SplitDoubleStar(gIn.pattern)[1]
                suffix    == SplitDoubleStar(gIn.pattern)[2]
                remainder == TrimPrefix(gIn.path, TrimRight(prefix, "/"))
            IN  matched <=> /\ StartsWithPrefix(gIn.path, prefix)
                            /\ suffix = << >> \/ SomeTailMatches(remainder, suffix)

(* C19, amended: the same, with suffix taken less its leading "/", and the *)
(* path after a non-empty prefix taken less its leading "/".               *)
C19_DoubleStarTrimmedPrefixAndTail ==
    \A matched \in gOut :
        Contains(gIn.pattern, DoubleStar) =>
            LET prefix    == TrimRight(SplitDoubleStar(gIn.pattern)[1], "/")
                suffix    == TrimLeft(SplitDoubleStar(gIn.pattern)[2], "/")
                remainder == IF prefix = << >> THEN gIn.path
                             ELSE TrimLeft(TrimPrefix(gIn.path, prefix), "/")
            IN  matched <=> /\ StartsWithPrefix(gIn.path, prefix)
                            /\ suffix = << >> \/ SomeTailMatches(remainder, suffix)

C19_Witness ==
    /\ gOut = {TRUE}
    /\ gIn.pattern = <<"a", "*", "*", "/", "a">>
    /\ gIn.path = <<"a", "/", "b", "/", "a">>

(***************************************************************************)
(* C15, C16: the pattern checkers                                          *)
(***************************************************************************)
InvalidRegex(pattern) == \E i \in 1..Len(pattern) : pattern[i] = "("

RegexKeyOf(type) ==
    IF type = "diff_pattern_forbidden" THEN "forbidden_regexes" ELSE "required_regexes"

IsStringList(cfg, key) == key \in DOMAIN cfg /\ cfg[key].isList

(* the rule is a pattern rule whose required keys are string lists and    *)
(* whose regex list holds an invalid regex                                 *)
SuppliesInvalidRegex(rule) ==
    /\ rule.Type \in {"diff_pattern_forbidden", "diff_pattern_requires"}
    /\ IsStringList(rule.Config, RegexKeyOf(rule.Type))
    /\ rule.Type = "diff_pattern_requires" => IsStringList(rule.Config, "only_in_paths")
    /\ \E k \in 1..Len(rule.Config[RegexKeyOf(rule.Type)].items) :
          InvalidRegex(rule.Config[RegexKeyOf(rule.Type)].items[k])

SomeFileInPaths(rule, files) ==
    /\ IsStringList(rule.Config, "only_in_paths")
    /\ \E i \in 1..Len(files) : matchesAnyGlob(files[i], rule.Config["only_in_paths"].items)

(* C15, as claimed: a pattern checker's Check on a well-formed config      *)
(* fails with a PatternError whenever a regex of its forbidden_regexes or  *)
(* required_regexes list is invalid.                                       *)
C15_InvalidRegexIsPatternError ==
    \A c \in rChecks : SuppliesInvalidRegex(rRules[1]) => c.err = "PatternError"

(* C15, amended: diff_pattern_forbidden fails with a PatternError whenever *)
(* a regex of forbidden_regexes is invalid; diff_pattern_requires does so  *)
(* when a regex of required_regexes is invalid and some changed file       *)
(* matches its only_in_paths list.                                         *)
C15_InvalidRegexIsPatternErrorWhenApplied ==
    \A c \in rChecks :
        ( /\ SuppliesInvalidRegex(rRules[1])
          /\ rRules[1].Type = "diff_pattern_requires" => SomeFileInPaths(rRules[1], rFiles) )
        => c.err = "PatternError"

C15_Witness ==
    /\ rRules[1].Type = "diff_pattern_requires"
    /\ SuppliesInvalidRegex(rRules[1])
    /\ SomeFileInPaths(rRules[1], rFiles)
    /\ \E c \in rChecks : c.err = "PatternError"

(* C16: for a diff_pattern_requires rule with well-formed config: when no  *)
(* changed file matches only_in_paths, no violation; when some does and    *)
(* the regexes are valid, no violation if any added line of the diff       *)
(* matches a required regex, else exactly one violation whose file path    *)
(* is the first changed file that matches only_in_paths.                   *)
C16_RequiresOneViolationOrNone ==
    \A c \in rChecks :
        LET rule == rRules[1]
            matching == SelectSeq(rFiles,
                           LAMBDA f : matchesAnyGlob(f, rule.Config["only_in_paths"].items))
            fileDiffs == ParseDiff(rDiff)
            found == \E i \in 1..Len(fileDiffs) : \E j \in 1..Len(fileDiffs[i].AddedLines) :
                        \E k \in 1..Len(rule.Config["required_regexes"].items) :
                            Contains(fileDiffs[i].AddedLines[j],
                                     rule.Config["required_regexes"].items[k])
        IN  ( /\ rule.Type = "diff_pattern_requires"
              /\ IsStringList(rule.Config, "required_regexes")
              /\ IsStringList(rule.Config, "only_in_paths") )
            => /\ matching = << >> => (c.err = NoError /\ c.violations = << >>)
               /\ (matching # << >> /\ ~SuppliesInvalidRegex(rule)) =>
                     /\ c.err = NoError
                     /\ found => c.violations = << >>
                     /\ ~found => c.violations =
                                    << [RuleID |-> rule.ID, Severity |-> rule.Severity,
                                        FilePath |-> matching[1], DiffSnippet |-> << >>] >>

(* the required pattern is added only in a file outside only_in_paths *)
C16_Witness ==
    /\ rRules[1].Type = "diff_pattern_requires"
    /\ rRules[1].Config = Config({<<"required_regexes", List(<<RegexY>>)>>,
                                  <<"only_in_paths", List(<<GlobSAll>>)>>})
    /\ rFiles = <<PathF, PathSG>>
    /\ rDiff = JoinLines(DiffBlock(LineNewF, <<LineAddXY>>) \o DiffBlock(LineNewSG, <<LineAddX>>))
    /\ \E c \in rChecks : c.err = NoError /\ c.violations = << >>

(***************************************************************************)
(* C14: Engine.Run fails as a whole                                        *)
(***************************************************************************)
CheckFailsFor(rule) ==
    IF rule.Type \notin Registry THEN FALSE
    ELSE Check(rule, rFiles, rDiff).err # NoError

ViolationsOf(rule) ==
    IF rule.Type \notin Registry \/ CheckFailsFor(rule) THEN << >>
    ELSE Check(rule, rFiles, rDiff).violations

(* C14: when any configured rule has a type that is not registered, or its *)
(* checker fails, the run fails and returns no result, whatever the other  *)
(* rules found; otherwise it returns a result and no error.                *)
C14_RunFailsAsAWhole ==
    \A r \in rResult :
        IF \E i \in 1..Len(rRules) : rRules[i].Type \notin Registry \/ CheckFailsFor(rRules[i])
        THEN r.err # NoError /\ r.result = {}
        ELSE r.err = NoError /\ r.result # {}

(* the first rule finds violations, the second rule's checker fails *)
C14_Witness ==
    /\ Len(rRules) = 2
    /\ ViolationsOf(rRules[1]) # << >>
    /\ CheckFailsFor(rRules[2])
    /\ \E r \in rResult : r.err # NoError /\ r.result = {}

(***************************************************************************)
(* C17: the meta checker                                                   *)
(***************************************************************************)
(* some proposal file of the directory holds a proposal with status accepted *)
AcceptedProposalExists ==
    /\ mDir.state = "ok"
    /\ \E name \in DOMAIN mDir.files :
          /\ ~mDir.files[name].IsDir
          /\ IsYamlExt(name)
          /\ mDir.files[name].Proposal.Status = <<"a", "c", "c", "e", "p", "t", "e", "d">>

ProtectedChanged ==
    SelectSeq(rFiles, LAMBDA f : f \in {ConstitutionPath, RulesPath})

(* C17: with a proposals directory that can be read or is missing, the     *)
(* meta checker emits, for each changed file equal to a protected path,    *)
(* one error violation with an empty snippet when no accepted proposal     *)
(* exists, and no violation when one exists; files that are not protected  *)
(* yield none.                                                             *)
C17_OneViolationPerProtectedFile ==
    \A r \in mOut :
        mDir.state # "denied" =>
            /\ r.err = NoError
            /\ r.violations =
                 IF AcceptedProposalExists THEN << >>
                 ELSE [i \in 1..Len(ProtectedChanged) |->
                         [RuleID |-> "meta_check", Severity |-> "error",
                          FilePath |-> ProtectedChanged[i], DiffSnippet |-> << >>]]

(* C17 for directories whose proposals do not quote the marker in a text field *)
C17_OneViolationPerProtectedFileUnlessQuoted ==
    \A r \in mOut :
        ( /\ mDir.state # "denied"
          /\ \A name \in DOMAIN mDir.files :
                ~Contains(mDir.files[name].Proposal.Reason, StatusMarker) ) =>
            /\ r.err = NoError
            /\ r.violations =
                 IF AcceptedProposalExists THEN << >>
                 ELSE [i \in 1..Len(ProtectedChanged) |->
                         [RuleID |-> "meta_check", Severity |-> "error",
                          FilePath |-> ProtectedChanged[i], DiffSnippet |-> << >>]]

(***************************************************************************)
(* C20: calculateRequired                                                  *)
(***************************************************************************)
(* the required count in exact arithmetic *)
ExactRequired(qc, totalEligible) ==
    CASE qc.Type = "two_thirds" -> Ceil(totalEligible * 2, 3)
      [] qc.Type = "unanimous"  -> totalEligible
      [] qc.Type = "custom"     -> Ceil(totalEligible * qc.Num, qc.Den)
      [] OTHER                  -> totalEligible \div 2 + 1

(* C20: calculateRequired returns floor(n/2)+1 for majority, ceil(n*2/3)   *)
(* for two_thirds, n for unanimous, ceil(n*threshold) for custom and the   *)
(* majority value for an unknown or empty type.                            *)
C20_RequiredIsExact ==
    \A r \in qOut : r.Required = ExactRequired(qIn.qc, qIn.totalEligible)

(* C20 for every type but custom *)
RequiredIsExactUnlessCustom ==
    \A r \in qOut :
        qIn.qc.Type # "custom" => r.Required = ExactRequired(qIn.qc, qIn.totalEligible)

(* custom: the result is never below the exact count, and at most one above *)
CustomRequiredWithinOne ==
    \A r \in qOut :
        qIn.qc.Type = "custom" =>
            r.Required - ExactRequired(qIn.qc, qIn.totalEligible) \in {0, 1}

(***************************************************************************)
(* C28: a bare dir/** pattern                                              *)
(***************************************************************************)
(* pattern is dir/** for a directory name without wildcard *)
IsBarePattern(pattern, dir) ==
    /\ dir # << >>
    /\ "*" \notin Range(dir)
    /\ dir[Len(dir)] # "/"
    /\ pattern = dir \o <<"/", "*", "*">>

(* C28: a pattern dir/** matches only the directory dir and the paths      *)
(* inside it; it never matches a path whose first segment merely begins    *)
(* with the text dir.                                                      *)
C28_BarePatternMatchesOnlyInsideDir ==
    \A dir \in { SubSeq(gIn.pattern, 1, k) : k \in 1..Len(gIn.pattern) } :
        (IsBarePattern(gIn.pattern, dir) /\ gOut = {TRUE}) =>
            (gIn.path = dir \/ HasPrefix(gIn.path, dir \o <<"/">>))

(***************************************************************************)
(* C21: per-rule quorum override                                           *)
(***************************************************************************)
(* the constitution without the overrides of other rules than ruleID *)
WithoutOtherOverrides(c, ruleID) ==
    [c EXCEPT !.PerRuleOverrides =
        [r \in DOMAIN c.PerRuleOverrides \cap {ruleID} |-> c.PerRuleOverrides[r]]]

RequiredUnder(qc, n) ==
    IF qc.Type = "unanimous" THEN n ELSE n \div 2 + 1

(* C21: the tally uses the override of the proposal's rule when there is   *)
(* one and the default quorum otherwise, and overrides of other rules      *)
(* change nothing of the tally.                                            *)
C21_OverrideOfOwnRuleOnly ==
    \A ta \in tally :
        LET own == tProposal.RuleID \in DOMAIN constitution.PerRuleOverrides
            qc  == IF own THEN constitution.PerRuleOverrides[tProposal.RuleID].Quorum
                   ELSE constitution.Quorum
        IN  /\ ta.QuorumConfig = qc
            /\ ta.QuorumResult.Required = RequiredUnder(qc, Len(ta.EligibleVoters))
            /\ ta = ComputeTally(tProposal, tVotes,
                                 WithoutOtherOverrides(constitution, tProposal.RuleID), now)

(* two of three voters said yes: accepted by the default majority, pending *)
(* under the rule's unanimous override                                     *)
C21_Witness ==
    /\ tProposal.RuleID \in DOMAIN constitution.PerRuleOverrides
    /\ constitution.Quorum = Majority
    /\ \E ta \in tally :
          /\ ta.QuorumConfig = Unanimous
          /\ ta.QuorumResult.TotalEligible = 3
          /\ ta.QuorumResult.YesVotes = 2
          /\ ta.QuorumResult.Result = "PENDING"

(***************************************************************************)
(* C22, C27: hook files                                                    *)
(***************************************************************************)
(* the hook file exists and does not contain the marker *)
IsForeign(hook) == \E data \in hook : ~Contains(data, HookMarker)

C27_InstallAllOrNothing ==
    [][ (hLast'.cmd = "install" /\ hLast'.err = "not managed by guardian")
          => hHooks' = hHooks ]_vars

(***************************************************************************)
(* C23 .. C26: proposals and their votes                                   *)
(***************************************************************************)
(* an eligible voter has a yes vote recorded on the proposal *)
HasEligibleYes(id) ==
    \E path \in DOMAIN votes :
        /\ path[1] = id
        /\ votes[path].Decision = "yes"
        /\ votes[path].VoterEmail \in Range(GetEligibleVoters(constitution))

(* C23: a proposal with status accepted has a yes vote of an eligible      *)
(* voter recorded on it; with nobody eligible no proposal is accepted.     *)
C23_AcceptedHasEligibleYes ==
    \A id \in DOMAIN proposals :
        proposals[id].Status = "accepted" => HasEligibleYes(id)

(* C24: once a proposal is accepted or withdrawn, no command changes its   *)
(* status or content.                                                      *)
C24_ClosedProposalsNeverChange ==
    [][ \A id \in DOMAIN proposals :
          proposals[id].Status \in {"accepted", "withdrawn"} =>
              (id \in DOMAIN proposals' /\ proposals'[id] = proposals[id]) ]_vars

(* C25: a proposal just created by propose has no recorded votes.          *)
C25_NewProposalHasNoVotes ==
    [][ (lastOp'.cmd = "propose" /\ lastOp'.exit = 0) =>
          LoadVotesForProposal(votes', lastOp'.target) = << >> ]_vars

(* C26: recording a vote leaves the recorded votes of every other voter as *)
(* they were.                                                              *)
C26_VoteKeepsOtherVotes ==
    [][ (lastOp'.cmd = "vote" /\ lastOp'.exit = 0) =>
          \A path \in DOMAIN votes :
              votes[path].VoterEmail # lastOp'.user =>
                  (path \in DOMAIN votes' /\ votes'[path] = votes[path]) ]_vars

====
